---- MODULE Spec2Model ----
(***************************************************************************)
(* Order lifecycle of the food-hub backend: the status update, status      *)
(* aggregation and cancel / soft-delete handlers of                        *)
(* controllers/orders.controller.js, acting on one Order document that     *)
(* createOrder has persisted.                                              *)
(***************************************************************************)
EXTENDS Integers, Sequences, FiniteSets, TLC

\* ---------------------------------------------------------------- bounds
\* number of sellers with products in the checked-out cart
MaxSellers == 2
\* number of requests handled in one run (also the range of the clock)
MaxOps == 3
\* number of seller updates applied to the two copies of SpecTwin together
MaxTwinOps == 3
\* number of lines in the cart of SpecCheckout
MaxCartLines == 2
\* number of status or cancel requests handled after the checkout of
\* SpecCheckout
MaxCheckoutOps == 1
\* length of the selectedCondiments array of a pricing request
MaxSelected == 2
\* number of addToCart requests of SpecPricing
MaxAdds == 2
\* number of createReview requests of SpecReview, which may overlap
MaxReviewReqs == 2
\* number of administrator status updates and review deletions of SpecReview
MaxReviewOps == 1

\* ---------------------------------------------------------------- users
\* user ids: 1..MaxSellers are the sellers of the order's items
NoItemsChefId == 0
OwnerId == 100
OtherUserId == 101
AdminId == 102

Sellers == 1..MaxSellers

\* req.user: the authenticated caller, an id with a role of the User schema
Callers ==
    {[id |-> s, role |-> "chef"] : s \in Sellers \cup {NoItemsChefId}}
        \cup {[id |-> OwnerId, role |-> "user"],
              [id |-> OtherUserId, role |-> "user"],
              [id |-> AdminId, role |-> "admin"]}

\* ---------------------------------------------------------------- statuses
validStatuses ==
    {"pending", "received", "in_progress", "ready", "delivered", "cancelled"}

\* req.body.status: the six values, a missing value and an unknown value
StatusInputs == validStatuses \cup {"", "shipped"}

\* req.body.action of PATCH /:id/cancel and PATCH /:id/delete
ActionInputs == {"cancel", "delete"}

\* one entry of a statusHistory array
HistoryEntry(status, now) == [status |-> status, timestamp |-> now]

\* ---------------------------------------------------------------- createOrder
\* the sub-order createOrder builds for one seller
NewChefItem(chefId, now) ==
    [chef |-> chefId,
     status |-> "pending",
     statusHistory |-> <<HistoryEntry("pending", now)>>]

\* the Order document createOrder persists for a cart with items of sellers
\* 1..n (items, amounts and delivery fields are not touched by the handlers
\* below and are left out)
NewOrder(n, now) ==
    [user |-> OwnerId,
     chefItems |-> [i \in 1..n |-> NewChefItem(i, now)],
     status |-> "pending",
     statusHistory |-> <<HistoryEntry("pending", now)>>,
     deleted |-> FALSE,
     deletedAt |-> -1]

\* ---------------------------------------------------------------- responses
Response(code, message) == [code |-> code, message |-> message]

\* mutant: the overall status is set without a history entry
PushOrderStatus_noHistory(order, status, now) ==
    [order EXCEPT !.status = status]

\* ---------------------------------------------------------------- aggregation
\* order.status = status; order.statusHistory.push({status, timestamp})
PushOrderStatus(order, status, now) ==
    [order EXCEPT !.status = status,
                  !.statusHistory = Append(@, HistoryEntry(status, now))]

EveryChefItem(order, set) ==
    \A i \in DOMAIN order.chefItems : order.chefItems[i].status \in set

SomeChefItem(order, set) ==
    \E i \in DOMAIN order.chefItems : order.chefItems[i].status \in set

\* mutant: the cancelled guard is missing
updateOverallOrderStatus_noGuard(order, now) ==
    IF EveryChefItem(order, {"delivered"})
    THEN PushOrderStatus(order, "delivered", now)
    ELSE IF EveryChefItem(order, {"ready", "delivered"})
    THEN PushOrderStatus(order, "ready", now)
    ELSE IF SomeChefItem(order, {"in_progress", "ready", "delivered"})
    THEN PushOrderStatus(order, "in_progress", now)
    ELSE IF EveryChefItem(order, validStatuses \ {"pending"})
    THEN PushOrderStatus(order, "received", now)
    ELSE order

\* mutant: the guard tests for the wrong terminal status
updateOverallOrderStatus_wrongGuard(order, now) ==
    IF order.status = "delivered"
    THEN order
    ELSE updateOverallOrderStatus_noGuard(order, now)

\* mutant: the in_progress rule is missing
updateOverallOrderStatus_noInProgress(order, now) ==
    IF order.status = "cancelled"
    THEN order
    ELSE IF EveryChefItem(order, {"delivered"})
    THEN PushOrderStatus(order, "delivered", now)
    ELSE IF EveryChefItem(order, {"ready", "delivered"})
    THEN PushOrderStatus(order, "ready", now)
    ELSE IF EveryChefItem(order, validStatuses \ {"pending"})
    THEN PushOrderStatus(order, "received", now)
    ELSE order

\* mutant: the ready rule is tested before the delivered rule
updateOverallOrderStatus_readyFirst(order, now) ==
    IF order.status = "cancelled"
    THEN order
    ELSE IF EveryChefItem(order, {"ready", "delivered"})
    THEN PushOrderStatus(order, "ready", now)
    ELSE IF EveryChefItem(order, {"delivered"})
    THEN PushOrderStatus(order, "delivered", now)
    ELSE IF SomeChefItem(order, {"in_progress", "ready", "delivered"})
    THEN PushOrderStatus(order, "in_progress", now)
    ELSE IF EveryChefItem(order, validStatuses \ {"pending"})
    THEN PushOrderStatus(order, "received", now)
    ELSE order

\* function updateOverallOrderStatus(order): the first rule that matches
\* sets order.status and pushes one history entry; when none matches the
\* function falls off its end and the order is left as it was
updateOverallOrderStatus(order, now) ==
    IF order.status = "cancelled"
    THEN order
    ELSE IF EveryChefItem(order, {"delivered"})
    THEN PushOrderStatus(order, "delivered", now)
    ELSE IF EveryChefItem(order, {"ready", "delivered"})
    THEN PushOrderStatus(order, "ready", now)
    ELSE IF SomeChefItem(order, {"in_progress", "ready", "delivered"})
    THEN PushOrderStatus(order, "in_progress", now)
    ELSE IF EveryChefItem(order, validStatuses \ {"pending"})
    THEN PushOrderStatus(order, "received", now)
    ELSE order

\* ---------------------------------------------------------------- status update
\* mutant: "not found" is taken for the first position
findChefItemIndex_noMatchFirst(order, chefId) ==
    IF \E i \in DOMAIN order.chefItems : order.chefItems[i].chef = chefId
    THEN CHOOSE i \in DOMAIN order.chefItems :
            /\ order.chefItems[i].chef = chefId
            /\ \A j \in 1..(i - 1) : order.chefItems[j].chef # chefId
    ELSE 1

\* order.chefItems.findIndex(item => item.chef._id.toString() === chefId),
\* with positions counted from 1 and 0 for "not found"
findChefItemIndex(order, chefId) ==
    IF \E i \in DOMAIN order.chefItems : order.chefItems[i].chef = chefId
    THEN CHOOSE i \in DOMAIN order.chefItems :
            /\ order.chefItems[i].chef = chefId
            /\ \A j \in 1..(i - 1) : order.chefItems[j].chef # chefId
    ELSE 0

\* mutant: a sub-order only moves forward along
\* pending, received, in_progress, ready, delivered, cancelled
PushChefItemStatus_forwardOnly(chefItem, status, now) ==
    LET Step(s) == CASE s = "pending" -> 0 [] s = "received" -> 1
                     [] s = "in_progress" -> 2 [] s = "ready" -> 3
                     [] s = "delivered" -> 4 [] OTHER -> 5
    IN  IF Step(status) < Step(chefItem.status)
        THEN chefItem
        ELSE [chefItem EXCEPT !.status = status,
                              !.statusHistory =
                                  Append(@, HistoryEntry(status, now))]

\* chefItem.status = status; chefItem.statusHistory.push({status, timestamp})
PushChefItemStatus(chefItem, status, now) ==
    [chefItem EXCEPT !.status = status,
                     !.statusHistory = Append(@, HistoryEntry(status, now))]

\* mutant: the seller's update is written to every sub-order
SellerBranch_allItems(order, index, status, now) ==
    updateOverallOrderStatus(
        [order EXCEPT !.chefItems =
            [i \in DOMAIN order.chefItems |->
                PushChefItemStatus(order.chefItems[i], status, now)]],
        now)

\* updateOrderStatus, role chef: the caller's sub-order, then the aggregation
SellerBranch(order, index, status, now) ==
    updateOverallOrderStatus(
        [order EXCEPT !.chefItems[index] = PushChefItemStatus(@, status, now)],
        now)

\* mutant: the administrator's value is not cascaded to the sub-orders
AdminBranch_noCascade(order, status, now) ==
    PushOrderStatus(order, status, now)

\* updateOrderStatus, role admin: the order and every sub-order
AdminBranch(order, status, now) ==
    [PushOrderStatus(order, status, now) EXCEPT !.chefItems =
        [i \in DOMAIN order.chefItems |->
            PushChefItemStatus(order.chefItems[i], status, now)]]

\* exports.updateOrderStatus: the stored order and the response
updateOrderStatus(order, user, status, now) ==
    IF status = ""
    THEN [order |-> order, res |-> Response(400, "Status is required")]
    ELSE IF status \notin validStatuses
    THEN [order |-> order, res |-> Response(400, "Invalid status value")]
    ELSE IF user.role # "admin" /\ user.role # "chef"
    THEN [order |-> order,
          res |-> Response(403, "Not authorized to update order status")]
    ELSE IF user.role = "chef"
    THEN LET chefItemIndex == findChefItemIndex(order, user.id)
         IN  IF chefItemIndex = 0
             THEN [order |-> order,
                   res |-> Response(403, "Not authorized to update this order")]
             ELSE [order |-> SellerBranch(order, chefItemIndex, status, now),
                   res |-> Response(200, "Order status updated")]
    ELSE [order |-> AdminBranch(order, status, now),
          res |-> Response(200, "Order status updated")]

\* ---------------------------------------------------------------- save
\* the entries pushed on a history since the document was loaded
PushedSince(loadedHistory, history) ==
    SubSeq(history, Len(loadedHistory) + 1, Len(history))

\* mutant: the save recomputes the overall status from the stored sub-orders
SaveChanges_aggregating(storedDoc, loadedDoc, doc) ==
    LET merged ==
            [storedDoc EXCEPT
                !.statusHistory =
                    @ \o PushedSince(loadedDoc.statusHistory, doc.statusHistory),
                !.chefItems =
                    [k \in DOMAIN storedDoc.chefItems |->
                        [storedDoc.chefItems[k] EXCEPT
                            !.status =
                                IF doc.chefItems[k].status
                                      # loadedDoc.chefItems[k].status
                                THEN doc.chefItems[k].status
                                ELSE @,
                            !.statusHistory =
                                @ \o PushedSince(
                                        loadedDoc.chefItems[k].statusHistory,
                                        doc.chefItems[k].statusHistory)]]]
    IN  [merged EXCEPT !.status = updateOverallOrderStatus(merged, 0).status]

\* await order.save() of a document loaded as loadedDoc and changed to doc:
\* the paths that were modified are written ($set for a status that got
\* another value, $push for the history entries added), the other paths of
\* the stored document stay as they are
SaveChanges(storedDoc, loadedDoc, doc) ==
    [storedDoc EXCEPT
        !.status = IF doc.status # loadedDoc.status THEN doc.status ELSE @,
        !.statusHistory =
            @ \o PushedSince(loadedDoc.statusHistory, doc.statusHistory),
        !.chefItems =
            [k \in DOMAIN storedDoc.chefItems |->
                [storedDoc.chefItems[k] EXCEPT
                    !.status =
                        IF doc.chefItems[k].status
                              # loadedDoc.chefItems[k].status
                        THEN doc.chefItems[k].status
                        ELSE @,
                    !.statusHistory =
                        @ \o PushedSince(loadedDoc.chefItems[k].statusHistory,
                                         doc.chefItems[k].statusHistory)]]]

\* ---------------------------------------------------------------- cancel / soft-delete
\* the authorization test of cancelOrder
cancelAuthorized(order, user) ==
    LET isOrderOwner == order.user = user.id
        isAdmin == user.role = "admin"
        isChefWithItems ==
            /\ user.role = "chef"
            /\ \E i \in DOMAIN order.chefItems : order.chefItems[i].chef = user.id
    IN  isOrderOwner \/ isAdmin \/ isChefWithItems

\* mutant: the flag is toggled instead of set
MarkDeleted_toggle(order, now) ==
    [order EXCEPT !.deleted = ~@, !.deletedAt = now]

\* order.deleted = true; order.deletedAt = new Date()
MarkDeleted(order, now) ==
    [order EXCEPT !.deleted = TRUE, !.deletedAt = now]

\* mutant: only the sub-orders that are still pending are cancelled
CancelCascade_pendingOnly(order, now) ==
    [PushOrderStatus(order, "cancelled", now) EXCEPT !.chefItems =
        [i \in DOMAIN order.chefItems |->
            IF order.chefItems[i].status = "pending"
            THEN PushChefItemStatus(order.chefItems[i], "cancelled", now)
            ELSE order.chefItems[i]]]

\* cancelOrder, the cancel itself: the order and every sub-order
CancelCascade(order, now) ==
    [PushOrderStatus(order, "cancelled", now) EXCEPT !.chefItems =
        [i \in DOMAIN order.chefItems |->
            PushChefItemStatus(order.chefItems[i], "cancelled", now)]]

\* mutant: an order that is only received can still be cancelled
isCancellable_received(order) ==
    order.status \in {"pending", "received"}

\* the test cancelOrder makes before a genuine cancel
isCancellable(order) ==
    order.status = "pending"

\* the test cancelOrder makes to choose the soft-delete
isSoftDelete(order, action) ==
    \/ action = "delete"
    \/ order.status = "delivered"
    \/ order.status = "cancelled"

\* exports.cancelOrder: the stored order and the response
cancelOrder(order, user, action, now) ==
    IF ~cancelAuthorized(order, user)
    THEN [order |-> order,
          res |-> Response(403, "Not authorized to modify this order")]
    ELSE IF isSoftDelete(order, action)
    THEN [order |-> MarkDeleted(order, now),
          res |-> Response(200, "Order removed from view")]
    ELSE IF ~isCancellable(order)
    THEN [order |-> order,
          res |-> Response(400,
                    "Cannot cancel order - it has already been processed")]
    ELSE [order |-> CancelCascade(order, now),
          res |-> Response(200, "Order cancelled successfully")]

\* ---------------------------------------------------------------- hard delete
NotFound == Response(404, "Order not found")

\* middleware auth.isAdmin of the DELETE /:id route
isAdmin(user) == user.role = "admin"

\* the authorization test of deleteOrder (admin only)
deleteAuthorized(order, user) ==
    user.role = "admin"

\* mutant: the route without the isAdmin middleware and the controller with
\* the owner-or-seller test and the status test of its earlier version
deleteOrder_ownerOrSeller(stored, order, user) ==
    IF ~stored
    THEN [stored |-> stored, res |-> NotFound]
    ELSE IF ~cancelAuthorized(order, user)
    THEN [stored |-> stored,
          res |-> Response(403, "Not authorized to delete this order")]
    ELSE IF order.status \notin {"delivered", "cancelled"}
    THEN [stored |-> stored,
          res |-> Response(400,
                    "Only delivered or cancelled orders can be deleted")]
    ELSE [stored |-> FALSE, res |-> Response(200, "Order permanently deleted")]

\* DELETE /api/orders/:id, middleware and exports.deleteOrder: whether the
\* document is still stored, and the response
deleteOrder(stored, order, user) ==
    IF ~isAdmin(user)
    THEN [stored |-> stored,
          res |-> Response(403, "Access denied. Admin privileges required")]
    ELSE IF ~stored
    THEN [stored |-> stored, res |-> NotFound]
    ELSE IF ~deleteAuthorized(order, user)
    THEN [stored |-> stored,
          res |-> Response(403,
                    "Not authorized to permanently delete this order")]
    ELSE [stored |-> FALSE, res |-> Response(200, "Order permanently deleted")]

\* ---------------------------------------------------------------- listings
\* getUserOrders: Order.find({user: req.user._id, deleted: {$ne: true}})
\* returns the order
getUserOrders(stored, order, user) ==
    /\ stored
    /\ order.user = user.id
    /\ order.deleted # TRUE

\* getChefOrders: Order.find({'chefItems.chef': chefId, 'chefItems.status':
\* req.query.status (when given), deleted: {$ne: true}}) returns the order;
\* statusFilter "" stands for no req.query.status
getChefOrders(stored, order, user, statusFilter) ==
    /\ stored
    /\ \E i \in DOMAIN order.chefItems : order.chefItems[i].chef = user.id
    /\ statusFilter # "" =>
          \E i \in DOMAIN order.chefItems :
              order.chefItems[i].status = statusFilter
    /\ order.deleted # TRUE

\* ---------------------------------------------------------------- numbers
\* JavaScript numbers are IEEE 754 doubles. A double is written here as
\* [m, e] for the value m * 2^e, with m a natural number of at most 53 bits
\* held as a sequence of limbs, least significant first.
LimbBits == 14

LimbBase == 2 ^ LimbBits

MantissaBits == 53

RECURSIVE BigTrim(_)
BigTrim(a) ==
    IF a # <<>> /\ a[Len(a)] = 0
    THEN BigTrim(SubSeq(a, 1, Len(a) - 1))
    ELSE a

RECURSIVE BigFromInt(_)
BigFromInt(n) ==
    IF n = 0 THEN <<>> ELSE <<n % LimbBase>> \o BigFromInt(n \div LimbBase)

RECURSIVE BigToInt(_)
BigToInt(a) ==
    IF a = <<>> THEN 0 ELSE Head(a) + LimbBase * BigToInt(Tail(a))

RECURSIVE BigAddC(_, _, _)
BigAddC(a, b, carry) ==
    IF a = <<>> /\ b = <<>>
    THEN IF carry = 0 THEN <<>> ELSE <<carry>>
    ELSE LET x == (IF a = <<>> THEN 0 ELSE Head(a))
                    + (IF b = <<>> THEN 0 ELSE Head(b)) + carry
         IN  <<x % LimbBase>>
                \o BigAddC(IF a = <<>> THEN <<>> ELSE Tail(a),
                           IF b = <<>> THEN <<>> ELSE Tail(b),
                           x \div LimbBase)

BigAdd(a, b) == BigAddC(a, b, 0)

\* a * k for a small k (k <= 2^16)
RECURSIVE BigMulSmallC(_, _, _)
BigMulSmallC(a, k, carry) ==
    IF a = <<>>
    THEN BigFromInt(carry)
    ELSE LET x == Head(a) * k + carry
         IN  <<x % LimbBase>> \o BigMulSmallC(Tail(a), k, x \div LimbBase)

BigMulSmall(a, k) == BigMulSmallC(a, k, 0)

RECURSIVE BigMul(_, _)
BigMul(a, b) ==
    IF b = <<>>
    THEN <<>>
    ELSE BigAdd(BigMulSmall(a, Head(b)), <<0>> \o BigMul(a, Tail(b)))

\* a * 2^n
BigShiftLeft(a, n) ==
    [i \in 1..(n \div LimbBits) |-> 0] \o BigMulSmall(a, 2 ^ (n % LimbBits))

\* quotient and remainder of a by a small k (k <= 2^16)
RECURSIVE BigDivSmall(_, _)
BigDivSmall(a, k) ==
    IF a = <<>>
    THEN [q |-> <<>>, r |-> 0]
    ELSE LET hi == BigDivSmall(Tail(a), k)
             x == hi.r * LimbBase + Head(a)
         IN  [q |-> <<x \div k>> \o hi.q, r |-> x % k]

\* quotient and remainder of a by 2^n
BigShiftRight(a, n) ==
    LET l == n \div LimbBits
        lo == SubSeq(a, 1, IF l < Len(a) THEN l ELSE Len(a))
        hi == SubSeq(a, l + 1, Len(a))
        d == BigDivSmall(hi, 2 ^ (n % LimbBits))
    IN  [q |-> BigTrim(d.q),
         r |-> BigTrim(lo \o [i \in 1..(l - Len(lo)) |-> 0] \o <<d.r>>)]

\* -1, 0 or 1 as a < b, a = b or a > b, for trimmed a and b
RECURSIVE BigCmp(_, _)
BigCmp(a, b) ==
    IF Len(a) # Len(b)
    THEN IF Len(a) < Len(b) THEN -1 ELSE 1
    ELSE IF a = <<>>
    THEN 0
    ELSE LET n == Len(a)
         IN  IF a[n] # b[n]
             THEN IF a[n] < b[n] THEN -1 ELSE 1
             ELSE BigCmp(SubSeq(a, 1, n - 1), SubSeq(b, 1, n - 1))

RECURSIVE IntBitLen(_)
IntBitLen(x) == IF x = 0 THEN 0 ELSE 1 + IntBitLen(x \div 2)

\* the number of bits of a trimmed a
BigBitLen(a) ==
    IF a = <<>>
    THEN 0
    ELSE LimbBits * (Len(a) - 1) + IntBitLen(a[Len(a)])

\* the double nearest to (x + d) * 2^e, ties to even, where 0 <= d < 1 and
\* d > 0 exactly when sticky
RoundNearestEven(x, e, sticky) ==
    LET t == BigTrim(x)
        n == BigBitLen(t) - MantissaBits
    IN  IF n <= 0
        THEN [m |-> t, e |-> e]
        ELSE LET s == BigShiftRight(t, n)
                 half == BigCmp(BigTrim(BigShiftLeft(s.r, 1)),
                                BigTrim(BigShiftLeft(<<1>>, n)))
                 up == \/ half = 1
                       \/ half = 0 /\ (sticky \/ (s.q # <<>> /\ s.q[1] % 2 = 1))
             IN  [m |-> IF up THEN BigAdd(s.q, <<1>>) ELSE s.q, e |-> e + n]

\* the double num / den as JavaScript computes it from two small integers
DoubleFromRatio(num, den) ==
    LET d == BigDivSmall(BigShiftLeft(BigFromInt(num), 60), den)
    IN  RoundNearestEven(d.q, -60, d.r # 0)

\* a * b
DoubleMul(a, b) == RoundNearestEven(BigMul(a.m, b.m), a.e + b.e, FALSE)

\* a + b
DoubleAdd(a, b) ==
    LET e == IF a.e < b.e THEN a.e ELSE b.e
    IN  RoundNearestEven(BigAdd(BigShiftLeft(a.m, a.e - e),
                                BigShiftLeft(b.m, b.e - e)), e, FALSE)

\* Math.round(a) for a >= 0: floor(a + 1/2)
MathRound(a) ==
    IF a.e >= 0
    THEN BigToInt(BigShiftLeft(a.m, a.e))
    ELSE BigToInt(BigShiftRight(BigAdd(BigShiftLeft(a.m, 1),
                                       BigShiftLeft(<<1>>, -a.e)),
                                1 - a.e).q)

\* the literals 0.1 and 100
PointOne == DoubleFromRatio(1, 10)

Hundred == DoubleFromRatio(100, 1)

\* the number of an amount given in cents: n / 100
Amount(cents) == DoubleFromRatio(cents, 100)

\* ---------------------------------------------------------------- checkout
\* the catalog: product ids, the seller and the price (in cents) of each
ProductIds == {1, 2, 3}

ProductChef(p) == IF p = 2 THEN 2 ELSE 1

ProductPrice(p) == CASE p = 1 -> 1000 [] p = 2 -> 500 [] OTHER -> 145

\* what populate('product') finds for a cart line: the product, available or
\* not, or null when the product has been removed
ProductStates == {"available", "unavailable", "removed"}

\* the condiment selections a cart line can carry
CondimentChoices == {<<>>, <<[name |-> "extra", price |-> 200]>>}

\* the cart lines of a user: CartItemSchema has a unique index on
\* (user, product), so the products of a cart are distinct
CartLines ==
    [product : ProductIds, quantity : {1, 2},
     selectedCondiments : CondimentChoices]

Carts ==
    {c \in UNION {[1..n -> CartLines] : n \in 0..MaxCartLines} :
        \A i, j \in DOMAIN c : i # j => c[i].product # c[j].product}

RECURSIVE SumPrices(_)
SumPrices(condiments) ==
    IF condiments = <<>>
    THEN 0
    ELSE Head(condiments).price + SumPrices(Tail(condiments))

\* the order item createOrder builds for a cart line
OrderItem(cartItem) ==
    LET itemPrice == ProductPrice(cartItem.product)
                        + SumPrices(cartItem.selectedCondiments)
    IN  [product |-> cartItem.product,
         quantity |-> cartItem.quantity,
         price |-> ProductPrice(cartItem.product),
         selectedCondiments |-> cartItem.selectedCondiments,
         subtotal |-> itemPrice * cartItem.quantity]

\* the sub-order createOrder starts for a seller: NewChefItem with its items
NewChefGroup(chefId, now) ==
    [chef |-> chefId,
     items |-> <<>>,
     status |-> "pending",
     statusHistory |-> <<HistoryEntry("pending", now)>>]

\* mutant: the seller's group is started again for every item
AddToChefItems_alwaysNew(chefItems, chefId, orderItem, now) ==
    LET fresh == [NewChefGroup(chefId, now) EXCEPT !.items = <<orderItem>>]
    IN  IF \E k \in DOMAIN chefItems : chefItems[k].chef = chefId
        THEN [k \in DOMAIN chefItems |->
                 IF chefItems[k].chef = chefId THEN fresh ELSE chefItems[k]]
        ELSE Append(chefItems, fresh)

\* if (!chefItemsMap.has(chefId)) chefItemsMap.set(chefId, {...});
\* chefItemsMap.get(chefId).items.push(orderItem): the groups in the order
\* in which the Map received their keys
AddToChefItems(chefItems, chefId, orderItem, now) ==
    LET withGroup ==
            IF \E k \in DOMAIN chefItems : chefItems[k].chef = chefId
            THEN chefItems
            ELSE Append(chefItems, NewChefGroup(chefId, now))
    IN  [k \in DOMAIN withGroup |->
            IF withGroup[k].chef = chefId
            THEN [withGroup[k] EXCEPT !.items = Append(@, orderItem)]
            ELSE withGroup[k]]

\* the loop of createOrder over the cart items, from item i on: acc holds
\* orderItems, the seller groups and the running subtotal. Amounts are in
\* cents: for prices of whole cents the doubles of the loop differ from the
\* exact sums by far less than half a cent, and
\* Math.round(subtotal * 100) / 100 after the loop gives the exact sum.
RECURSIVE AssembleFrom(_, _, _, _, _)
AssembleFrom(cartItems, productState, i, acc, now) ==
    IF i > Len(cartItems)
    THEN acc
    ELSE IF productState[cartItems[i].product] # "available"
    THEN AssembleFrom(cartItems, productState, i + 1, acc, now)
    ELSE LET orderItem == OrderItem(cartItems[i])
             chefId == ProductChef(cartItems[i].product)
         IN  AssembleFrom(cartItems, productState, i + 1,
                 [orderItems |-> Append(acc.orderItems, orderItem),
                  chefItems |-> AddToChefItems(acc.chefItems, chefId,
                                               orderItem, now),
                  subtotal |-> acc.subtotal + orderItem.subtotal],
                 now)

\* subtotal * 0.10 rounded half-up to the cent, on an amount in cents
HalfUpTenth(subtotal) == (subtotal + 5) \div 10

\* Math.round(subtotal * 0.1 * 100) / 100, from and to an amount in cents
ServiceFee(subtotal) ==
    MathRound(DoubleMul(DoubleMul(Amount(subtotal), PointOne), Hundred))

\* Math.round((subtotal + serviceFee) * 100) / 100, from and to cents
TotalAmount(subtotal, serviceFee) ==
    MathRound(DoubleMul(DoubleAdd(Amount(subtotal), Amount(serviceFee)),
                        Hundred))

\* new Order({...}) of createOrder
OrderDocument(userId, cartItems, productState, now) ==
    LET a == AssembleFrom(cartItems, productState, 1,
                 [orderItems |-> <<>>, chefItems |-> <<>>, subtotal |-> 0],
                 now)
        serviceFee == ServiceFee(a.subtotal)
    IN  [user |-> userId,
         items |-> a.orderItems,
         chefItems |-> a.chefItems,
         subtotal |-> a.subtotal,
         serviceFee |-> serviceFee,
         totalAmount |-> TotalAmount(a.subtotal, serviceFee),
         paymentStatus |-> "paid",
         status |-> "pending",
         statusHistory |-> <<HistoryEntry("pending", now)>>,
         deleted |-> FALSE,
         deletedAt |-> -1,
         reviewedItems |-> <<>>]

\* the chat channels createOrder asks for: one per seller of the order
ChatChannels(order) ==
    {[customer |-> order.user, chef |-> order.chefItems[k].chef] :
        k \in DOMAIN order.chefItems}

EmptyCartResponse ==
    Response(400, "Your cart is empty. Add items before placing an order.")

CreateOrderServerError == Response(500, "Server error while creating order")

\* mutant: the empty-cart test is missing
cartIsEmpty_never(cartItems) ==
    FALSE

\* if (cartItems.length === 0)
cartIsEmpty(cartItems) ==
    Len(cartItems) = 0

\* exports.createOrder when every awaited call succeeds: the Order
\* collection, the cart, the chat channels and the response (SpecPlaceOrder
\* takes the request step by step, with the calls that can fail)
createOrder(orders, cartItems, productState, chats, userId, now) ==
    IF cartIsEmpty(cartItems)
    THEN [orders |-> orders, cart |-> cartItems, chats |-> chats,
          res |-> EmptyCartResponse]
    ELSE LET newOrder == OrderDocument(userId, cartItems, productState, now)
         IN  [orders |-> Append(orders, newOrder),
              cart |-> <<>>,
              chats |-> chats \cup ChatChannels(newOrder),
              res |-> Response(201, "Order placed successfully")]

\* ---------------------------------------------------------------- pricing
\* product.condiments of the catalog: product 1 offers condiment 11,
\* product 2 offers condiment 21, product 3 offers none
CatalogCondiments(p) ==
    CASE p = 1 -> {[id |-> 11, name |-> "extra", price |-> 200]}
      [] p = 2 -> {[id |-> 21, name |-> "sauce", price |-> 200]}
      [] OTHER -> {}

\* the condimentId of an entry of selectedCondiments: 0 is an entry with no
\* condimentId, 99 is an id no product offers
SelectedIds == {0, 11, 99}

SelectedLists == UNION {[1..n -> SelectedIds] : n \in 0..MaxSelected}

\* one item of a pricing request
ItemRequests ==
    [productId : ProductIds, quantity : {1, 2},
     selectedCondiments : SelectedLists]

UnknownCondimentMessage == "Condiment does not exist for this product"

\* product.condiments.find(c => c._id.toString() === condimentId)
FindCondiment(p, condimentId) ==
    {c \in CatalogCondiments(p) : c.id = condimentId}

\* the loop of calculatePrice and addToCart over selectedCondiments, from
\* entry i on: an entry with no condimentId is skipped, an entry that
\* matches no condiment of the product ends the request
RECURSIVE ValidateCondiments(_, _, _, _)
ValidateCondiments(p, selected, i, acc) ==
    IF i > Len(selected)
    THEN [failed |-> FALSE, condiments |-> acc]
    ELSE IF selected[i] = 0
    THEN ValidateCondiments(p, selected, i + 1, acc)
    ELSE IF FindCondiment(p, selected[i]) = {}
    THEN [failed |-> TRUE, condiments |-> acc]
    ELSE ValidateCondiments(p, selected, i + 1,
            Append(acc, CHOOSE c \in FindCondiment(p, selected[i]) : TRUE))

\* the loop of calculateCart over selectedCondiments, from entry i on: only
\* the entries that match a condiment of the product are kept
RECURSIVE MatchedCondiments(_, _, _, _)
MatchedCondiments(p, selected, i, acc) ==
    IF i > Len(selected)
    THEN acc
    ELSE IF selected[i] # 0 /\ FindCondiment(p, selected[i]) # {}
    THEN MatchedCondiments(p, selected, i + 1,
            Append(acc, CHOOSE c \in FindCondiment(p, selected[i]) : TRUE))
    ELSE MatchedCondiments(p, selected, i + 1, acc)

PricingAnswer(code, message, total, condiments) ==
    [code |-> code, message |-> message, total |-> total,
     condiments |-> condiments]

\* exports.calculatePrice; amounts in cents
calculatePrice(item, productState) ==
    IF productState[item.productId] = "removed"
    THEN PricingAnswer(404, "Product not found", 0, <<>>)
    ELSE LET v == ValidateCondiments(item.productId, item.selectedCondiments,
                                     1, <<>>)
         IN  IF v.failed
             THEN PricingAnswer(400, UnknownCondimentMessage, 0, <<>>)
             ELSE PricingAnswer(200, "",
                     (ProductPrice(item.productId) + SumPrices(v.condiments))
                        * item.quantity,
                     v.condiments)

\* the loop of calculateCart over the items, from item i on
RECURSIVE ProcessItems(_, _, _, _)
ProcessItems(items, productState, i, acc) ==
    IF i > Len(items)
    THEN acc
    ELSE IF productState[items[i].productId] = "removed"
    THEN ProcessItems(items, productState, i + 1, acc)
    ELSE LET validated == MatchedCondiments(items[i].productId,
                              items[i].selectedCondiments, 1, <<>>)
             itemTotal == (ProductPrice(items[i].productId)
                              + SumPrices(validated)) * items[i].quantity
         IN  ProcessItems(items, productState, i + 1,
                 [processed |-> Append(acc.processed,
                                   [productId |-> items[i].productId,
                                    quantity |-> items[i].quantity,
                                    selectedCondiments |-> validated,
                                    totalPrice |-> itemTotal]),
                  subtotal |-> acc.subtotal + itemTotal])

\* exports.calculateCart; amounts in cents
calculateCart(items, productState) ==
    IF Len(items) = 0
    THEN [code |-> 400,
          message |-> "Items array is required and cannot be empty",
          items |-> <<>>, subtotal |-> 0, serviceFee |-> 0, total |-> 0]
    ELSE LET a == ProcessItems(items, productState, 1,
                     [processed |-> <<>>, subtotal |-> 0])
             serviceFee == ServiceFee(a.subtotal)
         IN  [code |-> 200, message |-> "",
              items |-> a.processed, subtotal |-> a.subtotal,
              serviceFee |-> serviceFee,
              total |-> TotalAmount(a.subtotal, serviceFee)]

\* the cart lines of the user, by product: quantity 0 stands for no line
EmptyUserCart ==
    [p \in ProductIds |->
        [quantity |-> 0, selectedCondiments |-> <<>>, totalPrice |-> 0]]

\* exports.addToCart; amounts in cents
addToCart(cart, item, productState) ==
    IF productState[item.productId] = "removed"
    THEN [cart |-> cart,
          res |-> PricingAnswer(404, "Product not found", 0, <<>>)]
    ELSE IF productState[item.productId] = "unavailable"
    THEN [cart |-> cart,
          res |-> PricingAnswer(400, "This product is currently unavailable",
                                0, <<>>)]
    ELSE LET v == ValidateCondiments(item.productId, item.selectedCondiments,
                                     1, <<>>)
             totalPrice == (ProductPrice(item.productId)
                               + SumPrices(v.condiments)) * item.quantity
             line == cart[item.productId]
         IN  IF v.failed
             THEN [cart |-> cart,
                   res |-> PricingAnswer(400, UnknownCondimentMessage, 0,
                                         <<>>)]
             ELSE [cart |->
                      [cart EXCEPT ![item.productId] =
                          IF line.quantity > 0
                          THEN [quantity |-> line.quantity + item.quantity,
                                selectedCondiments |->
                                    IF Len(item.selectedCondiments) > 0
                                    THEN v.condiments
                                    ELSE line.selectedCondiments,
                                totalPrice |-> totalPrice]
                          ELSE [quantity |-> item.quantity,
                                selectedCondiments |-> v.condiments,
                                totalPrice |-> totalPrice]],
                   res |-> PricingAnswer(200, "", totalPrice, v.condiments)]

\* ---------------------------------------------------------------- review gate
NotDeliveredReason == "Order is not delivered yet"
NotInOrderReason == "Product was not part of this order"
AlreadyReviewedReason == "Product was already reviewed for this order"

\* order.items.some(item => item.product.toString() === productId)
productInOrder(order, productId) ==
    \E i \in DOMAIN order.items : order.items[i].product = productId

\* order.reviewedItems.some(item => item.product.toString() === productId)
alreadyReviewed(order, productId) ==
    \E i \in DOMAIN order.reviewedItems :
        order.reviewedItems[i].product = productId

GateAnswer(code, canReview, reason) ==
    [code |-> code, canReview |-> canReview, reason |-> reason]

\* mutant: the already-reviewed test is made before the delivered test
canReviewProduct_reviewedFirst(order, user, productId) ==
    IF order.user # user.id
    THEN GateAnswer(403, FALSE, "Not authorized to review this order")
    ELSE IF alreadyReviewed(order, productId)
    THEN GateAnswer(200, FALSE, AlreadyReviewedReason)
    ELSE IF order.status # "delivered"
    THEN GateAnswer(200, FALSE, NotDeliveredReason)
    ELSE IF ~productInOrder(order, productId)
    THEN GateAnswer(200, FALSE, NotInOrderReason)
    ELSE GateAnswer(200, TRUE, "")

\* exports.canReviewProduct, for an order that exists
canReviewProduct(order, user, productId) ==
    IF order.user # user.id
    THEN GateAnswer(403, FALSE, "Not authorized to review this order")
    ELSE IF order.status # "delivered"
    THEN GateAnswer(200, FALSE, NotDeliveredReason)
    ELSE IF ~productInOrder(order, productId)
    THEN GateAnswer(200, FALSE, NotInOrderReason)
    ELSE IF alreadyReviewed(order, productId)
    THEN GateAnswer(200, FALSE, AlreadyReviewedReason)
    ELSE GateAnswer(200, TRUE, "")

\* ---------------------------------------------------------------- reviews
ReviewServerError == Response(500, "Server error while creating review")

\* exports.createReview up to the creation of the review: the response that
\* ends the request, or code 0 when every test passes
createReviewChecks(order, user, productId) ==
    IF order.user # user.id
    THEN Response(403, "Not authorized to review this order")
    ELSE IF order.status # "delivered"
    THEN Response(400, "Can only review orders that have been delivered")
    ELSE IF ~productInOrder(order, productId)
    THEN Response(400, "Product was not part of this order")
    ELSE IF alreadyReviewed(order, productId)
    THEN Response(400,
            "You have already reviewed this product for this order")
    ELSE Response(0, "")

\* mutant: the Review collection has no unique index
reviewIndexAllows_noIndex(reviews, user, productId) ==
    TRUE

\* reviewSchema.index({user: 1, product: 1, order: 1}, {unique: true}):
\* newReview.save() is accepted (all reviews here are of the one order)
reviewIndexAllows(reviews, user, productId) ==
    ~\E rw \in reviews : rw.user = user.id /\ rw.product = productId

\* order.reviewedItems.push({product, reviewId, reviewedAt}); order.save():
\* a push on a loaded document is saved as a $push on the stored array
pushReviewedItem(order, productId, reviewId, now) ==
    [order EXCEPT !.reviewedItems =
        Append(@, [product |-> productId, reviewId |-> reviewId,
                   reviewedAt |-> now])]

\* $pull: {reviewedItems: {reviewId: review._id}}
pullReviewedItem(order, reviewId) ==
    [order EXCEPT !.reviewedItems =
        SelectSeq(@, LAMBDA e : e.reviewId # reviewId)]

\* the ownership test of deleteReview
deleteReviewAuthorized(review, user) ==
    review.user = user.id \/ user.role = "admin"

\* ---------------------------------------------------------------- state
VARIABLES
    order,      \* the stored Order document
    stored,     \* whether the document is still in the collection
    now,        \* the clock: the number of requests handled so far
    last,       \* the last request handled, the order it found and its response
    twinA,      \* SpecTwin: a first copy of an order
    twinB,      \* SpecTwin: a second copy of the same order
    twinNow,    \* SpecTwin: the clock of the two copies
    ck,         \* SpecCheckout: the cart, the catalog state, the Order
                \* collection, the chat channels, the clock, the last response
    rv,         \* SpecReview: the order, the Review collection, the
                \* createReview requests in progress, the clock
    co,         \* SpecPlaceOrder: one createOrder request step by step, with
                \* the cart, the Order collection and the chat channels
    pr,         \* SpecPricing: the items of a pricing request, the catalog
                \* state, the user's cart and the last answer
    rc          \* SpecRace: the stored order, its version, and one
                \* updateOrderStatus request per seller, step by step

vars == <<order, stored, now, last, twinA, twinB, twinNow, ck, rv, co, pr, rc>>

\* SpecCheckout at rest: an empty cart and no order
NoCheckout ==
    [cart |-> <<>>,
     productState |-> [p \in ProductIds |-> "available"],
     orders |-> <<>>,
     chats |-> {},
     now |-> 0,
     op |-> "none",
     res |-> Response(0, "")]

ReviewReqIds == 1..MaxReviewReqs

\* a createReview request that has not arrived yet
IdleReviewReq ==
    [pc |-> "idle", user |-> [id |-> -1, role |-> "none"], product |-> 0,
     reviewId |-> 0, res |-> Response(0, "")]

\* the cart of the order SpecReview works on: product 1 (seller 1) and
\* product 2 (seller 2)
ReviewCart ==
    <<[product |-> 1, quantity |-> 2, selectedCondiments |-> <<>>],
      [product |-> 2, quantity |-> 1,
       selectedCondiments |-> <<[name |-> "extra", price |-> 200]>>]>>

\* SpecReview at rest: the order as createOrder saved it, no review
NoReviews ==
    [order |-> OrderDocument(OwnerId, ReviewCart,
                             [p \in ProductIds |-> "available"], 0),
     reviews |-> {},
     reqs |-> [r \in ReviewReqIds |-> IdleReviewReq],
     now |-> 0,
     ops |-> 0,
     createOnly |-> TRUE]

\* SpecPlaceOrder at rest: no request yet, an empty cart and no order
NoPlaceOrder ==
    [pc |-> "idle",
     cart |-> <<>>,
     productState |-> [p \in ProductIds |-> "available"],
     cartItems |-> <<>>,
     newOrder |-> <<>>,
     orders |-> <<>>,
     chats |-> {},
     chatFailed |-> FALSE,
     log |-> <<>>,
     res |-> Response(0, "")]

\* SpecPricing at rest: no request
NoPricing ==
    [items |-> <<>>,
     productState |-> [p \in ProductIds |-> "available"],
     cart |-> EmptyUserCart,
     adds |-> 0,
     op |-> "none",
     res |-> PricingAnswer(0, "", 0, <<>>)]

\* an updateOrderStatus request of a seller that has not arrived yet
IdleRaceReq ==
    [pc |-> "idle", status |-> "", base |-> 0,
     loaded |-> NewOrder(1, 0), doc |-> NewOrder(1, 0),
     res |-> Response(0, "")]

\* SpecRace at rest: a new order, version 0, no request
NoRace ==
    [order |-> NewOrder(1, 0),
     version |-> 0,
     now |-> 0,
     reqs |-> [s \in Sellers |-> IdleRaceReq]]

NoRequest ==
    [op |-> "none", user |-> [id |-> -1, role |-> "none"], status |-> "",
     action |-> "", res |-> Response(0, "")]

Init ==
    /\ \E n \in 1..MaxSellers : order = NewOrder(n, 0)
    /\ stored = TRUE
    /\ now = 0
    /\ last = [req |-> NoRequest, pre |-> order, found |-> TRUE]
    /\ twinA = NewOrder(1, 0)
    /\ twinB = NewOrder(1, 0)
    /\ twinNow = 0
    /\ ck = NoCheckout
    /\ rv = NoReviews
    /\ co = NoPlaceOrder
    /\ pr = NoPricing
    /\ rc = NoRace

\* PATCH /api/orders/:id/status
UpdateOrderStatus(user, status) ==
    /\ now < MaxOps
    /\ LET r == IF status \in validStatuses /\ ~stored
                THEN [order |-> order, res |-> NotFound]
                ELSE updateOrderStatus(order, user, status, now + 1)
       IN  /\ order' = r.order
           /\ last' = [req |-> [op |-> "updateOrderStatus", user |-> user,
                                status |-> status, action |-> "",
                                res |-> r.res],
                       pre |-> order, found |-> stored]
    /\ now' = now + 1
    /\ UNCHANGED <<stored, twinA, twinB, twinNow, ck, rv, co, pr, rc>>

\* PATCH /api/orders/:id/cancel (req.body.action as sent) and
\* PATCH /api/orders/:id/delete (the route sets req.body.action = 'delete')
CancelOrder(user, action) ==
    /\ now < MaxOps
    /\ LET r == IF ~stored
                THEN [order |-> order, res |-> NotFound]
                ELSE cancelOrder(order, user, action, now + 1)
       IN  /\ order' = r.order
           /\ last' = [req |-> [op |-> "cancelOrder", user |-> user,
                                status |-> "", action |-> action,
                                res |-> r.res],
                       pre |-> order, found |-> stored]
    /\ now' = now + 1
    /\ UNCHANGED <<stored, twinA, twinB, twinNow, ck, rv, co, pr, rc>>

\* DELETE /api/orders/:id
DeleteOrder(user) ==
    /\ now < MaxOps
    /\ LET r == deleteOrder(stored, order, user)
       IN  /\ stored' = r.stored
           /\ last' = [req |-> [op |-> "deleteOrder", user |-> user,
                                status |-> "", action |-> "",
                                res |-> r.res],
                       pre |-> order, found |-> stored]
    /\ now' = now + 1
    /\ UNCHANGED <<order, twinA, twinB, twinNow, ck, rv, co, pr, rc>>

Next ==
    \/ \E user \in Callers, status \in StatusInputs :
          UpdateOrderStatus(user, status)
    \/ \E user \in Callers, action \in ActionInputs :
          CancelOrder(user, action)
    \/ \E user \in Callers : DeleteOrder(user)

Spec == Init /\ [][Next]_vars

\* ---------------------------------------------------------------- two copies
\* SpecTwin runs seller status updates on two copies of one new order, each
\* copy with its own sequence of updates
InitTwin ==
    /\ order = NewOrder(1, 0)
    /\ stored = TRUE
    /\ now = 0
    /\ last = [req |-> NoRequest, pre |-> order, found |-> TRUE]
    /\ \E n \in 1..MaxSellers :
          /\ twinA = NewOrder(n, 0)
          /\ twinB = NewOrder(n, 0)
    /\ twinNow = 0
    /\ ck = NoCheckout
    /\ rv = NoReviews
    /\ co = NoPlaceOrder
    /\ pr = NoPricing
    /\ rc = NoRace

SellerCallers == {u \in Callers : u.role = "chef" /\ u.id \in Sellers}

TwinUpdateA(user, status) ==
    /\ twinNow < MaxTwinOps
    /\ twinA' = updateOrderStatus(twinA, user, status, twinNow + 1).order
    /\ twinNow' = twinNow + 1
    /\ UNCHANGED <<order, stored, now, last, twinB, ck, rv, co, pr, rc>>

TwinUpdateB(user, status) ==
    /\ twinNow < MaxTwinOps
    /\ twinB' = updateOrderStatus(twinB, user, status, twinNow + 1).order
    /\ twinNow' = twinNow + 1
    /\ UNCHANGED <<order, stored, now, last, twinA, ck, rv, co, pr, rc>>

NextTwin ==
    \/ \E user \in SellerCallers, status \in validStatuses :
          TwinUpdateA(user, status)
    \/ \E user \in SellerCallers, status \in validStatuses :
          TwinUpdateB(user, status)

SpecTwin == InitTwin /\ [][NextTwin]_vars

\* ---------------------------------------------------------------- checkout runs
\* SpecCheckout: the owner's cart and the state of the catalog are drawn, the
\* owner checks out, and status and cancel requests follow on the new order
InitCheckout ==
    /\ order = NewOrder(1, 0)
    /\ stored = TRUE
    /\ now = 0
    /\ last = [req |-> NoRequest, pre |-> order, found |-> TRUE]
    /\ twinA = NewOrder(1, 0)
    /\ twinB = NewOrder(1, 0)
    /\ twinNow = 0
    /\ \E cart \in Carts, productState \in [ProductIds -> ProductStates] :
          ck = [NoCheckout EXCEPT !.cart = cart,
                                  !.productState = productState]
    /\ rv = NoReviews
    /\ co = NoPlaceOrder
    /\ pr = NoPricing
    /\ rc = NoRace

\* POST /api/orders
CreateOrder ==
    /\ ck.op = "none"
    /\ LET r == createOrder(ck.orders, ck.cart, ck.productState, ck.chats,
                            OwnerId, ck.now + 1)
       IN  ck' = [ck EXCEPT !.orders = r.orders, !.cart = r.cart,
                            !.chats = r.chats, !.now = ck.now + 1,
                            !.op = "createOrder", !.res = r.res]
    /\ UNCHANGED <<order, stored, now, last, twinA, twinB, twinNow, rv, co, pr, rc>>

\* PATCH /api/orders/:id/status on the order of the checkout
CheckoutUpdateOrderStatus(user, status) ==
    /\ Len(ck.orders) = 1
    /\ ck.now < 1 + MaxCheckoutOps
    /\ LET r == updateOrderStatus(ck.orders[1], user, status, ck.now + 1)
       IN  ck' = [ck EXCEPT !.orders = <<r.order>>, !.now = ck.now + 1,
                            !.op = "updateOrderStatus", !.res = r.res]
    /\ UNCHANGED <<order, stored, now, last, twinA, twinB, twinNow, rv, co, pr, rc>>

\* PATCH /api/orders/:id/cancel and /delete on the order of the checkout
CheckoutCancelOrder(user, action) ==
    /\ Len(ck.orders) = 1
    /\ ck.now < 1 + MaxCheckoutOps
    /\ LET r == cancelOrder(ck.orders[1], user, action, ck.now + 1)
       IN  ck' = [ck EXCEPT !.orders = <<r.order>>, !.now = ck.now + 1,
                            !.op = "cancelOrder", !.res = r.res]
    /\ UNCHANGED <<order, stored, now, last, twinA, twinB, twinNow, rv, co, pr, rc>>

NextCheckout ==
    \/ CreateOrder
    \/ \E user \in Callers, status \in validStatuses :
          CheckoutUpdateOrderStatus(user, status)
    \/ \E user \in Callers, action \in ActionInputs :
          CheckoutCancelOrder(user, action)

SpecCheckout == InitCheckout /\ [][NextCheckout]_vars

\* ---------------------------------------------------------------- review runs
\* SpecReview: one order of two products, in any status an administrator can
\* give it; createReview requests that may overlap (each await is a step),
\* review deletions and administrator status updates
ReviewCallers ==
    {[id |-> OwnerId, role |-> "user"], [id |-> OtherUserId, role |-> "user"]}

AdminCaller == [id |-> AdminId, role |-> "admin"]

InitReview ==
    /\ order = NewOrder(1, 0)
    /\ stored = TRUE
    /\ now = 0
    /\ last = [req |-> NoRequest, pre |-> order, found |-> TRUE]
    /\ twinA = NewOrder(1, 0)
    /\ twinB = NewOrder(1, 0)
    /\ twinNow = 0
    /\ ck = NoCheckout
    /\ \/ rv = NoReviews
       \/ \E status \in validStatuses :
             rv = [NoReviews EXCEPT
                      !.order = updateOrderStatus(@, AdminCaller, status, 1).order,
                      !.now = 1]
    /\ co = NoPlaceOrder
    /\ pr = NoPricing
    /\ rc = NoRace

\* createReview, from the request to the end of its tests: Order.findById
\* and the tests on the document found
ReviewBegin(r, user, productId) ==
    /\ rv.reqs[r].pc = "idle"
    /\ \A q \in ReviewReqIds : q < r => rv.reqs[q].pc # "idle"
    /\ LET res == createReviewChecks(rv.order, user, productId)
       IN  rv' = [rv EXCEPT
                    !.reqs[r] = [pc |-> IF res.code = 0 THEN "checked"
                                                       ELSE "done",
                                 user |-> user, product |-> productId,
                                 reviewId |-> 0, res |-> res]]
    /\ UNCHANGED <<order, stored, now, last, twinA, twinB, twinNow, ck, co, pr, rc>>

\* createReview: await newReview.save(); the save is refused by the unique
\* index when the user already has a review of the product for the order
ReviewSaveReview(r) ==
    /\ rv.reqs[r].pc = "checked"
    /\ IF reviewIndexAllows(rv.reviews, rv.reqs[r].user, rv.reqs[r].product)
       THEN rv' = [rv EXCEPT
                     !.reviews = @ \cup {[id |-> rv.now + 1,
                                          user |-> rv.reqs[r].user.id,
                                          product |-> rv.reqs[r].product]},
                     !.now = rv.now + 1,
                     !.reqs[r].reviewId = rv.now + 1,
                     !.reqs[r].pc = "reviewSaved"]
       ELSE rv' = [rv EXCEPT !.reqs[r].pc = "done",
                             !.reqs[r].res = ReviewServerError]
    /\ UNCHANGED <<order, stored, now, last, twinA, twinB, twinNow, ck, co, pr, rc>>

\* createReview: order.reviewedItems.push(...); await order.save(), and the
\* 201 answer
ReviewSaveOrder(r) ==
    /\ rv.reqs[r].pc = "reviewSaved"
    /\ rv' = [rv EXCEPT
                !.order = pushReviewedItem(@, rv.reqs[r].product,
                                           rv.reqs[r].reviewId, rv.now + 1),
                !.now = rv.now + 1,
                !.reqs[r].pc = "done",
                !.reqs[r].res = Response(201, "Review submitted successfully")]
    /\ UNCHANGED <<order, stored, now, last, twinA, twinB, twinNow, ck, co, pr, rc>>

\* createReview: await order.save() rejects; the catch answers 500 and the
\* review saved before stays
ReviewSaveOrderFails(r) ==
    /\ rv.reqs[r].pc = "reviewSaved"
    /\ rv' = [rv EXCEPT !.reqs[r].pc = "done",
                        !.reqs[r].res = ReviewServerError]
    /\ UNCHANGED <<order, stored, now, last, twinA, twinB, twinNow, ck, co, pr, rc>>

\* DELETE /api/reviews/:id by the review's author or an administrator
DeleteReview(review, user) ==
    /\ rv.ops < MaxReviewOps
    /\ review \in rv.reviews
    /\ deleteReviewAuthorized(review, user)
    /\ rv' = [rv EXCEPT !.order = pullReviewedItem(@, review.id),
                        !.reviews = @ \ {review},
                        !.ops = rv.ops + 1,
                        !.createOnly = FALSE]
    /\ UNCHANGED <<order, stored, now, last, twinA, twinB, twinNow, ck, co, pr, rc>>

\* PATCH /api/orders/:id/status by an administrator
ReviewAdminUpdate(status) ==
    /\ rv.ops < MaxReviewOps
    /\ rv' = [rv EXCEPT
                !.order = updateOrderStatus(@, AdminCaller, status,
                                            rv.now + 1).order,
                !.now = rv.now + 1,
                !.ops = rv.ops + 1,
                !.createOnly = FALSE]
    /\ UNCHANGED <<order, stored, now, last, twinA, twinB, twinNow, ck, co, pr, rc>>

NextReview ==
    \/ \E r \in ReviewReqIds, user \in ReviewCallers, p \in ProductIds :
          ReviewBegin(r, user, p)
    \/ \E r \in ReviewReqIds : ReviewSaveReview(r)
    \/ \E r \in ReviewReqIds : ReviewSaveOrder(r)
    \/ \E r \in ReviewReqIds : ReviewSaveOrderFails(r)
    \/ \E review \in rv.reviews, user \in ReviewCallers \cup {AdminCaller} :
          DeleteReview(review, user)
    \/ \E status \in validStatuses : ReviewAdminUpdate(status)

SpecReview == InitReview /\ [][NextReview]_vars

\* ---------------------------------------------------------------- checkout steps
\* SpecPlaceOrder: one POST /api/orders of the owner, one step per awaited
\* call of createOrder; newOrder.save() and the chat creation can fail
InitPlaceOrder ==
    /\ order = NewOrder(1, 0)
    /\ stored = TRUE
    /\ now = 0
    /\ last = [req |-> NoRequest, pre |-> order, found |-> TRUE]
    /\ twinA = NewOrder(1, 0)
    /\ twinB = NewOrder(1, 0)
    /\ twinNow = 0
    /\ ck = NoCheckout
    /\ rv = NoReviews
    /\ \E cart \in Carts, productState \in [ProductIds -> ProductStates] :
          co = [NoPlaceOrder EXCEPT !.cart = cart,
                                    !.productState = productState]
    /\ pr = NoPricing
    /\ rc = NoRace

\* CartItem.find({user}).populate('product'), the empty-cart test and the
\* construction of new Order({...})
PlaceOrderBegin ==
    /\ co.pc = "idle"
    /\ IF cartIsEmpty(co.cart)
       THEN co' = [co EXCEPT !.pc = "done", !.cartItems = co.cart,
                             !.res = EmptyCartResponse]
       ELSE co' = [co EXCEPT
                     !.pc = "built", !.cartItems = co.cart,
                     !.newOrder = <<OrderDocument(OwnerId, co.cart,
                                                  co.productState, 1)>>]
    /\ UNCHANGED <<order, stored, now, last, twinA, twinB, twinNow, ck, rv, pr, rc>>

\* const savedOrder = await newOrder.save()
PlaceOrderSave ==
    /\ co.pc = "built"
    /\ co' = [co EXCEPT !.pc = "saved",
                        !.orders = Append(@, co.newOrder[1]),
                        !.log = Append(@, "save")]
    /\ UNCHANGED <<order, stored, now, last, twinA, twinB, twinNow, ck, rv, pr, rc>>

\* newOrder.save() rejects: the catch of createOrder answers 500
PlaceOrderSaveFails ==
    /\ co.pc = "built"
    /\ co' = [co EXCEPT !.pc = "done", !.res = CreateOrderServerError]
    /\ UNCHANGED <<order, stored, now, last, twinA, twinB, twinNow, ck, rv, pr, rc>>

\* mutant: a rejected Chat.create reaches the catch of createOrder
PlaceOrderCreateChats_failing(created) ==
    /\ co.pc = "saved"
    /\ created \subseteq ChatChannels(co.newOrder[1])
    /\ co' = [co EXCEPT
                !.pc = IF created # ChatChannels(co.newOrder[1])
                       THEN "done" ELSE "chatted",
                !.chats = @ \cup created,
                !.chatFailed = (created # ChatChannels(co.newOrder[1])),
                !.log = Append(@, "chats"),
                !.res = IF created # ChatChannels(co.newOrder[1])
                        THEN CreateOrderServerError ELSE @]
    /\ UNCHANGED <<order, stored, now, last, twinA, twinB, twinNow, ck, rv, pr, rc>>

\* await createChatsForOrder(...): Chat.create for every seller of the
\* order; the channels in created are made, a rejection of the others is
\* caught and logged inside createChatsForOrder
PlaceOrderCreateChats(created) ==
    /\ co.pc = "saved"
    /\ created \subseteq ChatChannels(co.newOrder[1])
    /\ co' = [co EXCEPT !.pc = "chatted",
                        !.chats = @ \cup created,
                        !.chatFailed = (created # ChatChannels(co.newOrder[1])),
                        !.log = Append(@, "chats")]
    /\ UNCHANGED <<order, stored, now, last, twinA, twinB, twinNow, ck, rv, pr, rc>>

\* mutant: the cart is cleared right after the order is saved
PlaceOrderClearCart_beforeChats ==
    /\ co.pc = "saved"
    /\ co.cart # <<>>
    /\ co' = [co EXCEPT !.cart = <<>>,
                        !.log = Append(@, "clear")]
    /\ UNCHANGED <<order, stored, now, last, twinA, twinB, twinNow, ck, rv, pr, rc>>

\* await CartItem.deleteMany({user}), the populate and the 201 answer
PlaceOrderClearCart ==
    /\ co.pc = "chatted"
    /\ co' = [co EXCEPT !.pc = "done",
                        !.cart = <<>>,
                        !.log = Append(@, "clear"),
                        !.res = Response(201, "Order placed successfully")]
    /\ UNCHANGED <<order, stored, now, last, twinA, twinB, twinNow, ck, rv, pr, rc>>

NextPlaceOrder ==
    \/ PlaceOrderBegin
    \/ PlaceOrderSave
    \/ PlaceOrderSaveFails
    \/ \E created \in SUBSET {[customer |-> OwnerId, chef |-> c] : c \in Sellers} :
          PlaceOrderCreateChats(created)
    \/ PlaceOrderClearCart

SpecPlaceOrder == InitPlaceOrder /\ [][NextPlaceOrder]_vars

\* ---------------------------------------------------------------- pricing runs
\* SpecPricing: the items of a request and the state of the catalog are
\* drawn; the three pricing entry points are applied to them
PlainItem == [productId |-> 2, quantity |-> 1, selectedCondiments |-> <<>>]

\* all products available, or one product unavailable or removed
CatalogStates ==
    {[p \in ProductIds |-> "available"]}
        \cup {[p \in ProductIds |-> IF p = q THEN st ELSE "available"] :
                 q \in ProductIds, st \in {"unavailable", "removed"}}

InitPricing ==
    /\ order = NewOrder(1, 0)
    /\ stored = TRUE
    /\ now = 0
    /\ last = [req |-> NoRequest, pre |-> order, found |-> TRUE]
    /\ twinA = NewOrder(1, 0)
    /\ twinB = NewOrder(1, 0)
    /\ twinNow = 0
    /\ ck = NoCheckout
    /\ rv = NoReviews
    /\ co = NoPlaceOrder
    /\ \E items \in {<<>>} \cup {<<r>> : r \in ItemRequests}
                      \cup {<<r, PlainItem>> : r \in ItemRequests},
          productState \in CatalogStates :
          pr = [NoPricing EXCEPT !.items = items,
                                 !.productState = productState]
    /\ rc = NoRace

\* POST /api/calculate-price with the first item of the request
CalculatePrice ==
    /\ pr.items # <<>>
    /\ pr' = [pr EXCEPT !.op = "calculatePrice",
                        !.res = calculatePrice(pr.items[1], pr.productState)]
    /\ UNCHANGED <<order, stored, now, last, twinA, twinB, twinNow, ck, rv, co, rc>>

\* POST /api/calculate-cart with the items of the request
CalculateCart ==
    /\ pr' = [pr EXCEPT !.op = "calculateCart",
                        !.res = calculateCart(pr.items, pr.productState)]
    /\ UNCHANGED <<order, stored, now, last, twinA, twinB, twinNow, ck, rv, co, rc>>

\* POST /api/cart with the first item of the request
AddToCart ==
    /\ pr.items # <<>>
    /\ pr.adds < MaxAdds
    /\ LET r == addToCart(pr.cart, pr.items[1], pr.productState)
       IN  pr' = [pr EXCEPT !.op = "addToCart", !.cart = r.cart,
                            !.adds = pr.adds + 1, !.res = r.res]
    /\ UNCHANGED <<order, stored, now, last, twinA, twinB, twinNow, ck, rv, co, rc>>

NextPricing ==
    \/ CalculatePrice
    \/ CalculateCart
    \/ AddToCart

SpecPricing == InitPricing /\ [][NextPricing]_vars

\* ---------------------------------------------------------------- status races
\* SpecRace: one PATCH /api/orders/:id/status per seller on a new order,
\* each request in two steps: Order.findById with the changes made on the
\* loaded document, then order.save(). The save of a document whose stored
\* version has moved on is either written as usual or rejected by
\* Mongoose's version test, whichever the library does for these paths.
InitRace ==
    /\ order = NewOrder(1, 0)
    /\ stored = TRUE
    /\ now = 0
    /\ last = [req |-> NoRequest, pre |-> order, found |-> TRUE]
    /\ twinA = NewOrder(1, 0)
    /\ twinB = NewOrder(1, 0)
    /\ twinNow = 0
    /\ ck = NoCheckout
    /\ rv = NoReviews
    /\ co = NoPlaceOrder
    /\ pr = NoPricing
    /\ \E n \in 1..MaxSellers : rc = [NoRace EXCEPT !.order = NewOrder(n, 0)]

\* updateOrderStatus up to its save: the document is loaded and changed
RaceLoad(s, status) ==
    /\ rc.reqs[s].pc = "idle"
    /\ LET r == updateOrderStatus(rc.order, [id |-> s, role |-> "chef"],
                                  status, rc.now + 1)
       IN  rc' = [rc EXCEPT
                    !.now = rc.now + 1,
                    !.reqs[s] = [pc |-> IF r.res.code = 200 THEN "loaded"
                                                           ELSE "done",
                                 status |-> status,
                                 base |-> rc.version,
                                 loaded |-> rc.order,
                                 doc |-> r.order,
                                 res |-> r.res]]
    /\ UNCHANGED <<order, stored, now, last, twinA, twinB, twinNow, ck, rv, co, pr>>

\* await order.save() and the 200 answer
RaceSave(s) ==
    /\ rc.reqs[s].pc = "loaded"
    /\ rc' = [rc EXCEPT
                !.order = SaveChanges(@, rc.reqs[s].loaded, rc.reqs[s].doc),
                !.version = rc.version + 1,
                !.reqs[s].pc = "done"]
    /\ UNCHANGED <<order, stored, now, last, twinA, twinB, twinNow, ck, rv, co, pr>>

\* await order.save() rejects with a VersionError: the catch answers 500
RaceSaveRejected(s) ==
    /\ rc.reqs[s].pc = "loaded"
    /\ rc.reqs[s].base # rc.version
    /\ rc' = [rc EXCEPT !.reqs[s].pc = "done",
                        !.reqs[s].res = Response(500, "Server error")]
    /\ UNCHANGED <<order, stored, now, last, twinA, twinB, twinNow, ck, rv, co, pr>>

NextRace ==
    \/ \E s \in Sellers, status \in validStatuses : RaceLoad(s, status)
    \/ \E s \in Sellers : RaceSave(s)
    \/ \E s \in Sellers : RaceSaveRejected(s)

SpecRace == InitRace /\ [][NextRace]_vars

\* ================================================================ properties
\* the request handled last, the order it found, and what it did
req == last.req
pre == last.pre

ProcessingMessage == "Cannot cancel order - it has already been processed"
CancelledMessage == "Order cancelled successfully"
RemovedMessage == "Order removed from view"

\* the last request was a status update by a seller that was carried out
SellerUpdateDone ==
    /\ req.op = "updateOrderStatus"
    /\ req.user.role = "chef"
    /\ req.res.code = 200

\* the last request was a status update by an administrator that was carried out
AdminUpdateDone ==
    /\ req.op = "updateOrderStatus"
    /\ req.user.role = "admin"
    /\ req.res.code = 200

\* the last request was a cancel request whose action is not delete, on an
\* order that exists
PlainCancel ==
    /\ req.op = "cancelOrder"
    /\ req.action # "delete"
    /\ req.res # NotFound

SubStatuses(o) == {o.chefItems[i].status : i \in DOMAIN o.chefItems}

\* history h2 is history h1 with exactly one more entry, of status s
OneMoreEntry(h1, h2, s) ==
    /\ Len(h2) = Len(h1) + 1
    /\ SubSeq(h2, 1, Len(h1)) = h1
    /\ h2[Len(h2)].status = s

\* the position of the caller's sub-order in the order the request found
OwnIndex == CHOOSE i \in DOMAIN pre.chefItems : pre.chefItems[i].chef = req.user.id

\* the fields no status or cancel handler writes
SameIdentity(o1, o2) ==
    /\ o1.user = o2.user
    /\ DOMAIN o1.chefItems = DOMAIN o2.chefItems
    /\ \A i \in DOMAIN o1.chefItems : o1.chefItems[i].chef = o2.chefItems[i].chef

\* ---------------------------------------------------------------- C1
\* C1: after a seller status update on an order that was not cancelled, the
\* overall status is what the priority rule gives for the sub-order statuses
\* as they now are: delivered if all are delivered, else ready if all are
\* ready or delivered, else in_progress if any is in_progress, ready or
\* delivered, else received if none is pending.
C1_SellerUpdateAggregates ==
    (SellerUpdateDone /\ pre.status # "cancelled") =>
        LET subs == SubStatuses(order)
        IN  IF subs = {"delivered"}
            THEN order.status = "delivered"
            ELSE IF subs \subseteq {"ready", "delivered"}
            THEN order.status = "ready"
            ELSE IF subs \cap {"in_progress", "ready", "delivered"} # {}
            THEN order.status = "in_progress"
            ELSE IF "pending" \notin subs
            THEN order.status = "received"
            ELSE TRUE

\* a seller update that made the overall status ready while one sub-order is
\* ready and another delivered
C1_Witness ==
    /\ SellerUpdateDone
    /\ pre.status # "cancelled"
    /\ SubStatuses(order) = {"ready", "delivered"}
    /\ order.status = "ready"
    /\ pre.status # "ready"

\* ---------------------------------------------------------------- C2
SameSubStatuses(o1, o2) ==
    /\ DOMAIN o1.chefItems = DOMAIN o2.chefItems
    /\ \A i \in DOMAIN o1.chefItems :
          o1.chefItems[i].status = o2.chefItems[i].status

\* C2: two sequences of seller status updates on the same order that leave
\* every sub-order with the same final status leave the same overall status.
C2_AggregationOrderIndependent ==
    SameSubStatuses(twinA, twinB) => twinA.status = twinB.status

\* ---------------------------------------------------------------- C3
\* C3: when a seller update leaves at least one sub-order pending and none
\* in_progress, ready or delivered, and the order was not cancelled, the
\* overall status is pending after the update.
C3_OtherwisePending ==
    ( /\ SellerUpdateDone
      /\ pre.status # "cancelled"
      /\ "pending" \in SubStatuses(order)
      /\ SubStatuses(order) \cap {"in_progress", "ready", "delivered"} = {} )
        => order.status = "pending"

\* ---------------------------------------------------------------- C4
\* C4 as stated: a plain cancel request on an order whose overall status is
\* received, in_progress or ready is answered 400 (already processed) and
\* leaves the stored order as it was, whoever sends it.
C4_ActiveCancelRejected_AnyCaller ==
    (PlainCancel /\ pre.status \in {"received", "in_progress", "ready"}) =>
        /\ req.res = Response(400, ProcessingMessage)
        /\ order = pre

\* C4 amended: a plain cancel request by an authorized caller (the owner, a
\* seller with items in the order, an administrator) on an order whose
\* overall status is received, in_progress or ready is answered 400 (already
\* processed); from any caller the stored order is left as it was.
C4_ActiveCancelRejected ==
    (PlainCancel /\ pre.status \in {"received", "in_progress", "ready"}) =>
        /\ cancelAuthorized(pre, req.user) =>
              req.res = Response(400, ProcessingMessage)
        /\ ~cancelAuthorized(pre, req.user) => req.res.code = 403
        /\ order = pre

\* the owner's plain cancel of a received order was refused
C4_Witness ==
    /\ PlainCancel
    /\ req.user.id = OwnerId
    /\ pre.status = "received"
    /\ req.res.code = 400
    /\ order = pre

\* ---------------------------------------------------------------- C5
AuthorizedPlainCancelOfStarted ==
    /\ PlainCancel
    /\ cancelAuthorized(pre, req.user)
    /\ SubStatuses(pre) \cap {"in_progress", "ready", "delivered"} # {}

\* C5 as stated: a plain cancel by an authorized caller is answered 400
\* (already processed) whenever a sub-order is in_progress, ready or
\* delivered; it never succeeds and never sets the order to cancelled.
C5_StartedCancelRejected_Always ==
    AuthorizedPlainCancelOfStarted =>
        /\ req.res = Response(400, ProcessingMessage)
        /\ order = pre

\* C5 amended: a plain cancel by an authorized caller on an order with a
\* sub-order in_progress, ready or delivered never cancels anything: when the
\* overall status is received, in_progress or ready it is answered 400
\* (already processed) and the order is left as it was; when the overall
\* status is delivered or cancelled it is carried out as a soft-delete, which
\* sets deleted and leaves every status and history as it was.
C5_StartedCancelNeverCancels ==
    AuthorizedPlainCancelOfStarted =>
        /\ pre.status # "pending"
        /\ req.res.message # CancelledMessage
        /\ order.status = pre.status
        /\ order.statusHistory = pre.statusHistory
        /\ order.chefItems = pre.chefItems
        /\ pre.status \in {"received", "in_progress", "ready"} =>
              /\ req.res = Response(400, ProcessingMessage)
              /\ order = pre
        /\ pre.status \in {"delivered", "cancelled"} =>
              /\ req.res = Response(200, RemovedMessage)
              /\ order.deleted

\* a seller's plain cancel of an in_progress order with a ready sub-order was
\* refused
C5_Witness ==
    /\ AuthorizedPlainCancelOfStarted
    /\ req.user.role = "chef"
    /\ pre.status = "in_progress"
    /\ "ready" \in SubStatuses(pre)
    /\ req.res.code = 400

\* ---------------------------------------------------------------- C6
CancelDone ==
    /\ PlainCancel
    /\ req.res = Response(200, CancelledMessage)

\* C6: a successful plain cancel of a pending order sets the overall status
\* and the status of every sub-order to cancelled, whatever the sub-order's
\* status was, and appends exactly one cancelled entry to the order's history
\* and to each sub-order's history.
C6_CancelCascades ==
    CancelDone =>
        /\ pre.status = "pending"
        /\ order.status = "cancelled"
        /\ OneMoreEntry(pre.statusHistory, order.statusHistory, "cancelled")
        /\ SameIdentity(pre, order)
        /\ \A i \in DOMAIN order.chefItems :
              /\ order.chefItems[i].status = "cancelled"
              /\ OneMoreEntry(pre.chefItems[i].statusHistory,
                              order.chefItems[i].statusHistory, "cancelled")

\* a successful cancel of a pending order one of whose sub-orders was already
\* received
C6_Witness ==
    /\ CancelDone
    /\ "received" \in SubStatuses(pre)
    /\ "pending" \in SubStatuses(pre)
    /\ SubStatuses(order) = {"cancelled"}

\* ---------------------------------------------------------------- C7
\* C7: a seller status update on a cancelled order leaves the overall status
\* cancelled and the order's history as it was; only the caller's own
\* sub-order changes.
C7_CancelledIgnoresSellerUpdate ==
    (SellerUpdateDone /\ pre.status = "cancelled") =>
        /\ order.status = "cancelled"
        /\ order.statusHistory = pre.statusHistory
        /\ order.deleted = pre.deleted
        /\ order.deletedAt = pre.deletedAt
        /\ SameIdentity(pre, order)
        /\ \A i \in DOMAIN order.chefItems :
              i # OwnIndex => order.chefItems[i] = pre.chefItems[i]
        /\ order.chefItems[OwnIndex].status = req.status

\* a seller of a cancelled order set the last sub-order to delivered, so that
\* every sub-order is delivered
C7_Witness ==
    /\ SellerUpdateDone
    /\ pre.status = "cancelled"
    /\ SubStatuses(order) = {"delivered"}
    /\ order.status = "cancelled"

\* ---------------------------------------------------------------- C8
\* C8 as stated: once the overall status is cancelled it is cancelled in
\* every later state, whatever request is handled.
C8_CancelledAbsorbing_AnyRequest ==
    [][order.status = "cancelled" => order'.status = "cancelled"]_vars

\* C8 amended: once the overall status is cancelled it stays cancelled under
\* every seller status update, cancel request and soft-delete; only an
\* administrator's status update changes it, to the value the administrator
\* sends.
C8_CancelledAbsorbing ==
    [][order.status = "cancelled" =>
          IF last'.req.op = "updateOrderStatus"
                /\ last'.req.user.role = "admin"
                /\ last'.req.res.code = 200
          THEN order'.status = last'.req.status
          ELSE order'.status = "cancelled"]_vars

\* a seller's update of a cancelled order was carried out and would, by the
\* aggregation rules, have given another overall status
C8_Witness ==
    /\ pre.status = "cancelled"
    /\ SellerUpdateDone
    /\ req.status = "in_progress"
    /\ order.status = "cancelled"

\* ---------------------------------------------------------------- C9
\* C9: a seller status update changes the status and history of the caller's
\* own sub-order only: every other sub-order is as it was, and the caller's
\* sub-order has the requested status and exactly one more history entry,
\* which carries that status.
C9_SellerUpdateFrame ==
    SellerUpdateDone =>
        /\ SameIdentity(pre, order)
        /\ \A i \in DOMAIN order.chefItems :
              i # OwnIndex => order.chefItems[i] = pre.chefItems[i]
        /\ order.chefItems[OwnIndex].status = req.status
        /\ OneMoreEntry(pre.chefItems[OwnIndex].statusHistory,
                        order.chefItems[OwnIndex].statusHistory, req.status)

\* a seller update in an order with another sub-order of a different status
C9_Witness ==
    /\ SellerUpdateDone
    /\ \E i \in DOMAIN order.chefItems :
          /\ i # OwnIndex
          /\ order.chefItems[i].status # req.status
          /\ Len(order.chefItems[i].statusHistory) > 1

\* ---------------------------------------------------------------- C10
\* C10: an administrator status update to s sets the overall status and the
\* status of every sub-order to s and appends exactly one entry of status s
\* to the order's history and to each sub-order's history.
C10_AdminUpdateCascades ==
    AdminUpdateDone =>
        /\ req.status \in validStatuses
        /\ order.status = req.status
        /\ OneMoreEntry(pre.statusHistory, order.statusHistory, req.status)
        /\ SameIdentity(pre, order)
        /\ \A i \in DOMAIN order.chefItems :
              /\ order.chefItems[i].status = req.status
              /\ OneMoreEntry(pre.chefItems[i].statusHistory,
                              order.chefItems[i].statusHistory, req.status)

\* an administrator update of an order whose sub-orders had two different
\* statuses, neither of them the one sent
C10_Witness ==
    /\ AdminUpdateDone
    /\ Cardinality(SubStatuses(pre)) > 1
    /\ req.status \notin SubStatuses(pre)
    /\ req.status # pre.status

\* ---------------------------------------------------------------- C11
HasSubOrder(o, user) ==
    \E i \in DOMAIN o.chefItems : o.chefItems[i].chef = user.id

\* the last request was a status update, with one of the six status values,
\* of an order that exists, by a caller who is neither an administrator nor
\* a seller with a sub-order in it
OutsiderUpdate ==
    /\ req.op = "updateOrderStatus"
    /\ req.status \in validStatuses
    /\ last.found
    /\ req.user.role # "admin"
    /\ ~(req.user.role = "chef" /\ HasSubOrder(pre, req.user))

SoftDeleteRequest ==
    /\ req.op = "cancelOrder"
    /\ last.found
    /\ \/ req.action = "delete"
       \/ pre.status \in {"delivered", "cancelled"}

\* the order o2 is the order o1 with deleted set and a new deletedAt
SoftDeleted(o1, o2) ==
    /\ o2.deleted = TRUE
    /\ o2 = [o1 EXCEPT !.deleted = TRUE, !.deletedAt = o2.deletedAt]

\* C12 as stated: every such request, whoever sends it, sets deleted and
\* leaves every status and history as it was, the second time as the first.
C12_SoftDelete_AnyCaller ==
    SoftDeleteRequest => SoftDeleted(pre, order)

\* C12 amended: such a request by an authorized caller (the owner, a seller
\* with items in the order, an administrator) sets deleted to true and
\* leaves the overall status, every sub-order status and every history as
\* they were; applied to an order that is already deleted it leaves deleted
\* true and changes deletedAt only. From any other caller it is answered
\* Forbidden and changes nothing.
C12_SoftDelete ==
    SoftDeleteRequest =>
        /\ cancelAuthorized(pre, req.user) =>
              /\ req.res = Response(200, RemovedMessage)
              /\ SoftDeleted(pre, order)
        /\ ~cancelAuthorized(pre, req.user) =>
              /\ req.res.code = 403
              /\ order = pre
        /\ stored

\* a plain cancel of a delivered order that was already soft-deleted: the
\* second application
C12_Witness ==
    /\ SoftDeleteRequest
    /\ req.action = "cancel"
    /\ cancelAuthorized(pre, req.user)
    /\ pre.status = "delivered"
    /\ pre.deleted
    /\ order.deleted
    /\ order.deletedAt # pre.deletedAt

\* ---------------------------------------------------------------- C13
\* C13: after the owner soft-deletes a delivered order, getChefOrders of each
\* seller with a sub-order in it still returns the order, and getUserOrders
\* of the owner does not.
C13_SoftDeleteHidesFromRequesterOnly ==
    ( /\ req.op = "cancelOrder"
      /\ last.found
      /\ req.user.id = pre.user
      /\ pre.status = "delivered"
      /\ req.res = Response(200, RemovedMessage) )
        => /\ \A u \in SellerCallers :
                 HasSubOrder(order, u) => getChefOrders(stored, order, u, "")
           /\ ~getUserOrders(stored, order, req.user)

\* ---------------------------------------------------------------- C14
\* C14: a hard-delete request on an order whose status is pending, received,
\* in_progress or ready is rejected and the order still exists afterwards.
C14_HardDeleteOnlyWhenFinished ==
    ( /\ req.op = "deleteOrder"
      /\ last.found
      /\ pre.status \in {"pending", "received", "in_progress", "ready"} )
        => /\ req.res.code # 200
           /\ stored

\* ---------------------------------------------------------------- C15
\* the last request was a hard delete of an existing order by its owner or
\* by a seller with items in it
OwnerOrSellerHardDelete ==
    /\ req.op = "deleteOrder"
    /\ last.found
    /\ \/ req.user.id = pre.user
       \/ req.user.role = "chef" /\ HasSubOrder(pre, req.user)

\* C15: a hard-delete request by the order's owner or by a seller with items
\* in the order is answered Forbidden (403) and the order still exists,
\* unchanged, whatever its status.
C15_HardDeleteAdminOnly ==
    OwnerOrSellerHardDelete =>
        /\ req.res.code = 403
        /\ stored
        /\ order = pre

\* the owner's hard delete of a delivered order was refused
C15_Witness ==
    /\ OwnerOrSellerHardDelete
    /\ req.user.id = OwnerId
    /\ pre.status = "delivered"
    /\ req.res.code = 403
    /\ stored

\* ---------------------------------------------------------------- C19
\* the positions (k, j) of the sub-order items of order o
SubOrderSlots(o) ==
    UNION {{<<k, j>> : j \in DOMAIN o.chefItems[k].items} :
              k \in DOMAIN o.chefItems}

ItemsPartitioned(o) ==
    \* every item of the order is in exactly one place of one sub-order
    /\ \A i \in DOMAIN o.items :
          Cardinality({sl \in SubOrderSlots(o) :
              o.chefItems[sl[1]].items[sl[2]] = o.items[i]}) = 1
    \* every sub-order item is an item of the order, of the sub-order's seller
    /\ \A sl \in SubOrderSlots(o) :
          /\ \E i \in DOMAIN o.items :
                o.items[i] = o.chefItems[sl[1]].items[sl[2]]
          /\ ProductChef(o.chefItems[sl[1]].items[sl[2]].product)
                = o.chefItems[sl[1]].chef
    /\ Cardinality(SubOrderSlots(o)) = Len(o.items)
    \* one sub-order per distinct seller of the items
    /\ \A k1, k2 \in DOMAIN o.chefItems :
          k1 # k2 => o.chefItems[k1].chef # o.chefItems[k2].chef
    /\ {o.chefItems[k].chef : k \in DOMAIN o.chefItems}
          = {ProductChef(o.items[i].product) : i \in DOMAIN o.items}

\* C19: in every order created by checkout, and in every later state of it,
\* the sub-orders partition the order's items: each item is in exactly one
\* sub-order, the sub-orders hold nothing else, and there is exactly one
\* sub-order per distinct seller of the items.
C19_SubOrdersPartitionItems ==
    \A n \in DOMAIN ck.orders : ItemsPartitioned(ck.orders[n])

\* an order with two items of one seller, changed by a later request
C19_Witness ==
    /\ Len(ck.orders) = 1
    /\ Len(ck.orders[1].items) = 2
    /\ Len(ck.orders[1].chefItems) = 1
    /\ Len(ck.orders[1].chefItems[1].items) = 2
    /\ ck.op = "updateOrderStatus"
    /\ ck.orders[1].chefItems[1].status = "ready"

\* ---------------------------------------------------------------- C20
\* C20: every order persisted by checkout has at least one item and at least
\* one sub-order; a checkout whose cart lines are all skipped creates none.
C20_PersistedOrderNotEmpty ==
    \A n \in DOMAIN ck.orders :
        /\ Len(ck.orders[n].items) >= 1
        /\ Len(ck.orders[n].chefItems) >= 1

\* ---------------------------------------------------------------- reviews
ReviewOwner == [id |-> OwnerId, role |-> "user"]

\* the entries of order.reviewedItems for a product
ReviewedEntries(productId) ==
    {i \in DOMAIN rv.order.reviewedItems :
        rv.order.reviewedItems[i].product = productId}

\* the stored reviews of a product (all of the one order)
StoredReviews(productId) ==
    {rw \in rv.reviews : rw.product = productId}

\* a createReview request for the product was answered 201
Submitted(productId) ==
    \E r \in ReviewReqIds :
        /\ rv.reqs[r].pc = "done"
        /\ rv.reqs[r].product = productId
        /\ rv.reqs[r].res.code = 201

\* no createReview request is between its tests and its answer
NoReviewInFlight ==
    \A r \in ReviewReqIds : rv.reqs[r].pc \in {"idle", "done"}

\* C16: canReviewProduct, called by the order's owner, answers true exactly
\* when the order is delivered, the product is in order.items and the product
\* is not in order.reviewedItems; otherwise it answers false with the first
\* failing reason in the order not delivered, not in the order, already
\* reviewed; a caller who is not the owner gets 403.
C16_CanReviewGate ==
    \A p \in ProductIds :
        /\ LET a == canReviewProduct(rv.order, ReviewOwner, p)
               delivered == rv.order.status = "delivered"
               inOrder == \E i \in DOMAIN rv.order.items :
                              rv.order.items[i].product = p
               reviewed == ReviewedEntries(p) # {}
           IN  /\ a.code = 200
               /\ a.canReview <=> (delivered /\ inOrder /\ ~reviewed)
               /\ ~delivered => a.reason = NotDeliveredReason
               /\ delivered /\ ~inOrder => a.reason = NotInOrderReason
               /\ delivered /\ inOrder /\ reviewed
                      => a.reason = AlreadyReviewedReason
        /\ \A user \in Callers \ {ReviewOwner} :
               LET a == canReviewProduct(rv.order, user, p)
               IN  a.code = 403 /\ ~a.canReview

\* a reviewed product of an order that is no longer delivered: two of the
\* three tests fail and the answer names the first
C16_Witness ==
    /\ rv.order.status # "delivered"
    /\ ReviewedEntries(1) # {}
    /\ canReviewProduct(rv.order, ReviewOwner, 1).reason = NotDeliveredReason
    /\ canReviewProduct(rv.order, ReviewOwner, 3).reason = NotDeliveredReason

\* With review deletions between the two saves of a createReview request
\* (save review, deletion of it, a second request answered 201, then the
\* first request's append) a product gets two entries: this does not hold
\* in SpecReview.
OneEntryPerProduct_WithDeletions ==
    \A p \in ProductIds : Cardinality(ReviewedEntries(p)) <= 1

C18_ReviewAndEntryTogether ==
    (rv.createOnly /\ NoReviewInFlight) =>
        \A p \in ProductIds :
            (StoredReviews(p) # {}) <=> (ReviewedEntries(p) # {})

RECURSIVE SumLines(_)
SumLines(items) ==
    IF items = <<>>
    THEN 0
    ELSE (Head(items).price + SumPrices(Head(items).selectedCondiments))
            * Head(items).quantity
         + SumLines(Tail(items))

\* the cart of the scenario: seller 1 (price 10, quantity 2) and seller 2
\* (price 5, quantity 1, one condiment of 2)
IsScenarioCart ==
    /\ ck.cart = <<>>
    /\ Len(ck.orders) = 1
    /\ ck.orders[1].items =
          <<OrderItem(ReviewCart[1]), OrderItem(ReviewCart[2])>>

\* C22: for every order created by checkout, in whole cents: subtotal is
\* the sum over the surviving lines of (base price + selected condiment
\* prices) * quantity, serviceFee is subtotal * 0.10 rounded half-up to the
\* cent and totalAmount is subtotal + serviceFee; the scenario cart gives
\* 27.00, 2.70 and 29.70 with two pending sub-orders and overall pending.
C22_Amounts ==
    ck.op = "createOrder" =>
        /\ \A i \in DOMAIN ck.orders :
              /\ ck.orders[i].subtotal = SumLines(ck.orders[i].items)
              /\ ck.orders[i].serviceFee = HalfUpTenth(ck.orders[i].subtotal)
              /\ ck.orders[i].totalAmount =
                    ck.orders[i].subtotal + ck.orders[i].serviceFee
        /\ IsScenarioCart =>
              /\ ck.orders[1].subtotal = 2700
              /\ ck.orders[1].serviceFee = 270
              /\ ck.orders[1].totalAmount = 2970
              /\ Len(ck.orders[1].chefItems) = 2
              /\ \A k \in 1..2 : ck.orders[1].chefItems[k].status = "pending"
              /\ ck.orders[1].status = "pending"

\* what does hold: the scenario's amounts, the subtotal, and the total as
\* the sum of subtotal and fee
C22_ScenarioAndSums ==
    ck.op = "createOrder" =>
        /\ \A i \in DOMAIN ck.orders :
              /\ ck.orders[i].subtotal = SumLines(ck.orders[i].items)
              /\ ck.orders[i].totalAmount =
                    ck.orders[i].subtotal + ck.orders[i].serviceFee
        /\ IsScenarioCart =>
              /\ ck.orders[1].subtotal = 2700
              /\ ck.orders[1].serviceFee = 270
              /\ ck.orders[1].totalAmount = 2970
              /\ Len(ck.orders[1].chefItems) = 2
              /\ \A k \in 1..2 : ck.orders[1].chefItems[k].status = "pending"
              /\ ck.orders[1].status = "pending"

\* ---------------------------------------------------------------- C23
\* a selected condiment of the item has an id that no condiment of the
\* product carries
HasUnmatched(item) ==
    \E i \in DOMAIN item.selectedCondiments :
        /\ item.selectedCondiments[i] # 0
        /\ FindCondiment(item.productId, item.selectedCondiments[i]) = {}

\* the items the last pricing request was about
PricedItems ==
    IF pr.op = "calculateCart" THEN pr.items
    ELSE IF pr.op = "none" THEN <<>>
    ELSE <<pr.items[1]>>

\* C23: in calculatePrice, calculateCart and addToCart a selected condiment
\* that matches no condiment of the product makes the request fail with the
\* unknown-condiment answer; no entry point computes a price while leaving
\* the unmatched condiment out.
C23_UnknownCondimentRejected ==
    \A i \in DOMAIN PricedItems :
        (/\ pr.productState[PricedItems[i].productId] = "available"
         /\ HasUnmatched(PricedItems[i]))
            => pr.res.code = 400 /\ pr.res.message = UnknownCondimentMessage

\* what does hold: calculatePrice and addToCart reject the request
C23_SingleItemEntryPointsReject ==
    (/\ pr.op \in {"calculatePrice", "addToCart"}
     /\ pr.productState[pr.items[1].productId] = "available"
     /\ HasUnmatched(pr.items[1]))
        => pr.res.code = 400 /\ pr.res.message = UnknownCondimentMessage

\* ---------------------------------------------------------------- C24
IsPrefix(a, b) ==
    Len(a) <= Len(b) /\ a = SubSeq(b, 1, Len(a))

\* the order of the request is in the Order collection
OrderPersisted ==
    co.newOrder # <<>> /\ co.orders = co.newOrder

\* the request has cleared the cart it found
CartCleared ==
    co.cartItems # <<>> /\ co.cart = <<>>

C25_ChatFailureTolerated ==
    co.chatFailed =>
        /\ OrderPersisted
        /\ co.pc \in {"chatted", "done"}
        /\ co.pc = "done" =>
              /\ co.res = Response(201, "Order placed successfully")
              /\ CartCleared

\* a checkout that ended after one of two chat channels could not be made
C25_Witness ==
    /\ co.chatFailed
    /\ co.pc = "done"
    /\ co.res.code = 201
    /\ Len(co.newOrder[1].chefItems) = 2
    /\ Cardinality(co.chats) = 1

\* ---------------------------------------------------------------- C26
\* both sellers of a two-seller order sent the same status, one of the
\* set, both requests loaded the order before either saved, and both have
\* ended
BothEndedAfterOverlap(set) ==
    /\ Len(rc.order.chefItems) = 2
    /\ rc.reqs[1].status = rc.reqs[2].status
    /\ \A s \in {1, 2} :
          /\ rc.reqs[s].pc = "done"
          /\ rc.reqs[s].base = 0
          /\ rc.reqs[s].status \in set

\* the stored sub-order of a seller does not carry the status they sent
WriteLost(s) ==
    rc.order.chefItems[s].status # rc.reqs[s].status

\* the stored overall status is not what updateOverallOrderStatus gives for
\* the stored sub-orders
StaleOverallStatus ==
    updateOverallOrderStatus(rc.order, 0).status # rc.order.status

\* C26: there is an interleaving of two sellers' status updates on the two
\* sub-orders of an order, both loading before either saves, after which
\* the stored order does not reflect both updates: whenever both sellers
\* of a new two-seller order send the same status received, ready or
\* delivered in such an interleaving, one seller's write is lost or the
\* stored overall status is not the aggregation of the stored sub-order
\* statuses.
C26_OverlapLosesUpdate ==
    BothEndedAfterOverlap({"received", "ready", "delivered"}) =>
        \/ \E s \in {1, 2} : WriteLost(s)
        \/ StaleOverallStatus

\* both sellers set delivered, both saves were written, and the order is
\* stored as in_progress with two delivered sub-orders
C26_Witness ==
    /\ BothEndedAfterOverlap({"delivered"})
    /\ \A s \in {1, 2} :
          rc.reqs[s].res.code = 200 /\ rc.order.chefItems[s].status = "delivered"
    /\ rc.order.status = "in_progress"

\* ---------------------------------------------------------------- C27
\* C27: the order's statusHistory is append-only and gains exactly one entry
\* per change of the overall status value: a request that changes the
\* overall status appends one entry and a request that leaves it the same
\* appends none; in particular the seller update that makes a two-seller
\* order delivered appends exactly one entry.
C27_OneEntryPerStatusChange ==
    /\ IsPrefix(pre.statusHistory, order.statusHistory)
    /\ Len(order.statusHistory) - Len(pre.statusHistory)
          = IF order.status # pre.status THEN 1 ELSE 0

\* what does hold: the history is append-only, a request appends at most one
\* entry, that entry carries the overall status, every change of the overall
\* status appends one, and the seller update that makes the order delivered
\* appends exactly one
C27_AppendOnlyAtMostOne ==
    /\ IsPrefix(pre.statusHistory, order.statusHistory)
    /\ Len(order.statusHistory) - Len(pre.statusHistory) \in {0, 1}
    /\ Len(order.statusHistory) > Len(pre.statusHistory) =>
          order.statusHistory[Len(order.statusHistory)].status = order.status
    /\ order.status # pre.status =>
          Len(order.statusHistory) = Len(pre.statusHistory) + 1
    /\ (SellerUpdateDone /\ pre.status # "delivered"
                         /\ order.status = "delivered") =>
          OneMoreEntry(pre.statusHistory, order.statusHistory, "delivered")

\* ---------------------------------------------------------------- C28
\* the last request was a status update with one of the six values, sent by a
\* seller with a sub-order in the order it found
SellerSetsStatus ==
    /\ req.op = "updateOrderStatus"
    /\ last.found
    /\ req.status \in validStatuses
    /\ req.user.role = "chef"
    /\ HasSubOrder(pre, req.user)

\* the last request was a status update with one of the six values, sent by
\* an administrator for an order that exists
AdminSetsStatus ==
    /\ req.op = "updateOrderStatus"
    /\ last.found
    /\ req.status \in validStatuses
    /\ req.user.role = "admin"

\* C28: status transitions are not restricted to forward progress: whatever
\* the current status, a seller's update with any of the six values is
\* carried out and leaves their sub-order at that value, and an
\* administrator's update with any of the six values is carried out and
\* leaves the overall status at that value.
C28_AnyTransition ==
    /\ SellerSetsStatus =>
          /\ req.res.code = 200
          /\ order.chefItems[OwnIndex].status = req.status
    /\ AdminSetsStatus =>
          /\ req.res.code = 200
          /\ order.status = req.status

\* a seller took their delivered sub-order back to pending
C28_Witness ==
    /\ SellerSetsStatus
    /\ pre.chefItems[OwnIndex].status = "delivered"
    /\ req.status = "pending"
    /\ order.chefItems[OwnIndex].status = "pending"

\* an administrator took a delivered order back to received
C28_AdminLeavesDelivered ==
    /\ AdminSetsStatus
    /\ pre.status = "delivered"
    /\ req.status = "received"
    /\ order.status = "received"

\* ---------------------------------------------------------------- C29
\* history h starts with pending and ends with status s
HistoryTracks(h, s) ==
    /\ Len(h) >= 1
    /\ h[1].status = "pending"
    /\ h[Len(h)].status = s

\* the order's history and every sub-order's history track their status
HistoriesTrack(o) ==
    /\ HistoryTracks(o.statusHistory, o.status)
    /\ \A i \in DOMAIN o.chefItems :
          HistoryTracks(o.chefItems[i].statusHistory, o.chefItems[i].status)

\* C29: in every state reached by a sequential run of seller updates,
\* administrator updates, cancels and soft-deletes on an order created by
\* checkout, the last entry of the order's statusHistory carries the overall
\* status, the last entry of each sub-order's statusHistory carries that
\* sub-order's status, and the first entry of each history is pending.
C29_HistoriesTrackStatus == HistoriesTrack(order)

\* a soft-deleted two-seller order after at least two changes, whose
\* sub-orders have different statuses
C29_Witness ==
    /\ order.deleted
    /\ Len(order.chefItems) = 2
    /\ Len(order.statusHistory) >= 3
    /\ order.chefItems[1].status # order.chefItems[2].status
    /\ Len(order.chefItems[1].statusHistory) >= 2
    /\ HistoriesTrack(order)

\* the same for the orders checkout itself creates and one request on them
C29_AfterCheckout == \A i \in DOMAIN ck.orders : HistoriesTrack(ck.orders[i])

\* ---------------------------------------------------------------- C30
\* createReview, called now, would pass its tests and store a review
WouldStoreReview(user, productId) ==
    /\ createReviewChecks(rv.order, user, productId).code = 0
    /\ reviewIndexAllows(rv.reviews, user, productId)

\* the answer of the gate and the tests of createReview name the same case
SameRefusal(user, productId) ==
    LET gate == canReviewProduct(rv.order, user, productId)
        test == createReviewChecks(rv.order, user, productId)
    IN  /\ gate.code = 403 <=> test.code = 403
        /\ (gate.code = 200 /\ gate.reason = NotDeliveredReason) <=>
              test = Response(400,
                        "Can only review orders that have been delivered")
        /\ (gate.code = 200 /\ gate.reason = NotInOrderReason) <=>
              test = Response(400, "Product was not part of this order")
        /\ (gate.code = 200 /\ gate.reason = AlreadyReviewedReason) <=>
              test = Response(400,
                        "You have already reviewed this product for this order")
        /\ gate.canReview <=> test.code = 0

\* C30: the review gate and review submission agree: on every order state,
\* for every product and caller, createReview passes its tests and stores a
\* review exactly when canReviewProduct answers canReview true, and it is
\* refused (Forbidden, not delivered, not in order, already reviewed) exactly
\* when canReviewProduct is refused or answers false for the same reason.
C30_GateAndSubmissionAgree ==
    NoReviewInFlight =>
        \A user \in ReviewCallers, p \in ProductIds :
            /\ canReviewProduct(rv.order, user, p).canReview
                  <=> WouldStoreReview(user, p)
            /\ SameRefusal(user, p)

\* what does hold: the tests of the two handlers agree case by case in every
\* state, and a submission the gate allows stores a review in every state
\* where the reviews and order.reviewedItems agree
C30_TestsAgree ==
    \A user \in ReviewCallers, p \in ProductIds :
        /\ SameRefusal(user, p)
        /\ (NoReviewInFlight
              /\ (StoredReviews(p) # {} <=> ReviewedEntries(p) # {})) =>
              (canReviewProduct(rv.order, user, p).canReview
                  <=> WouldStoreReview(user, p))

\* the gate allows a review that the unique index will refuse
C30_GateAllowsRefusedReview ==
    /\ NoReviewInFlight
    /\ canReviewProduct(rv.order, ReviewOwner, 1).canReview
    /\ ~WouldStoreReview(ReviewOwner, 1)

====
